---- MODULE Spec2Model ----
(***************************************************************************)
(* Model of the finance dashboard: app.py (the Streamlit script: ticker    *)
(* cleaning, the per-ticker fetch loop, concat + sort, add_sma, normalize, *)
(* the return summary) and src/finance.py (add_indicators).                *)
(*                                                                         *)
(* Strings are sequences of one-character strings.  Floating point values  *)
(* are exact rationals plus the two special values NaN and +inf; a missing *)
(* value (pandas NaN / None) is NaN.  A DataFrame is a record of its row   *)
(* count and its columns, each column a sequence of that length.  Only the *)
(* columns the transforms read (Date, Close, Ticker) are kept of the OHLCV *)
(* frame a fetch returns.                                                  *)
(***************************************************************************)
EXTENDS Integers, Sequences, FiniteSets, TLC

VARIABLES
    \* ---- one run of the app.py script -------------------------------
    pc,           \* position of the script
    tickers_raw,  \* st.text_input "Tickers"
    tickers,      \* clean_tickers(tickers_raw)
    idx,          \* position of the `for t in tickers` loop
    dfs,          \* list of non-empty frames fetched so far
    missing,      \* list of tickers whose fetch was empty
    cache,        \* st.cache_data of fetch_history: ticker -> frame
    fetches,      \* number of fetch_history calls of this run
    notice,       \* st.warning / st.error that stopped the run ("" if none)
    df,           \* combined frame after concat, sort and add_sma
    df_norm,      \* normalize(df)
    returns,      \* the "Returns (%)" table: ticker -> value
    \* ---- direct calls of add_sma / normalize / add_indicators --------
    heap,         \* DataFrame objects by reference
    arg,          \* reference of the frame passed in
    ret,          \* reference of the frame returned (0: none)
    raised,       \* "" or the exception the call raised
    call          \* the call made: [f, ws]

vars == <<pc, tickers_raw, tickers, idx, dfs, missing, cache, fetches, notice,
          df, df_norm, returns, heap, arg, ret, raised, call>>
appVars == <<pc, tickers_raw, tickers, idx, dfs, missing, cache, fetches,
             notice, df, df_norm, returns>>
libVars == <<heap, arg, ret, raised, call>>

(***************************************************************************)
(* Bounds of the model.                                                    *)
(***************************************************************************)
MaxRawLen == 3     \* typed ticker strings have at most this many characters
MaxPaste == 9      \* a pasted list "a,a,...": at most this many entries
MaxLen == 2        \* a fetched history has at most this many rows
MaxRows == 3       \* a frame passed to a direct call has at most this many rows
MaxWindow == 2     \* windows of direct calls range over -1 .. MaxWindow

(***************************************************************************)
(* Floating point values.                                                  *)
(***************************************************************************)
NaN == [k |-> "nan", n |-> 0, d |-> 1]
Inf == [k |-> "inf", n |-> 0, d |-> 1]

RECURSIVE GCD(_, _)
GCD(a, b) == IF b = 0 THEN a ELSE GCD(b, a % b)

Abs(a) == IF a < 0 THEN -a ELSE a

\* the rational n/d (d > 0) in lowest terms
Frac(n, d) ==
    LET g == GCD(Abs(n), d)
    IN  [k |-> "num", n |-> n \div g, d |-> d \div g]

Num(n) == Frac(n, 1)

IsNum(v) == v.k = "num"

\* numpy float division a / b (closes are never negative)
FDiv(a, b) ==
    IF a.k = "nan" \/ b.k = "nan" THEN NaN
    ELSE IF a.k = "inf" THEN (IF b.k = "inf" THEN NaN ELSE Inf)
    ELSE IF b.k = "inf" THEN Num(0)
    ELSE IF b.n = 0 THEN (IF a.n = 0 THEN NaN ELSE Inf)
    ELSE Frac(a.n * b.d, a.d * b.n)

\* a * m for a positive integer m
FMul(a, m) == IF IsNum(a) THEN Frac(a.n * m, a.d) ELSE a

\* a - m for an integer m
FSub(a, m) == IF IsNum(a) THEN Frac(a.n - m * a.d, a.d) ELSE a

\* a + b of two finite numbers
FAdd(a, b) == Frac(a.n * b.d + b.n * a.d, a.d * b.d)

\* Python's None
None == [k |-> "none", n |-> 0, d |-> 1]

\* Python truth value: None and 0.0 are false, every other float (NaN too) is true
Truthy(v) == ~(v.k = "none") /\ ~(IsNum(v) /\ v.n = 0)

(***************************************************************************)
(* Strings.                                                                *)
(***************************************************************************)
Ord(c) ==
    CASE c = "\t" -> 9
      [] c = " "  -> 32
      [] c = ","  -> 44
      [] c = "A"  -> 65
      [] c = "B"  -> 66
      [] c = "a"  -> 97
      [] c = "b"  -> 98

IsSpace(c) == c \in {" ", "\t"}

UpperChar(c) ==
    CASE c = "a" -> "A"
      [] c = "b" -> "B"
      [] OTHER   -> c

\* str.upper
Upper(s) == [j \in 1..Len(s) |-> UpperChar(s[j])]

\* str.strip
Strip(s) ==
    LET keep == {j \in 1..Len(s) : ~IsSpace(s[j])}
    IN  IF keep = {} THEN <<>>
        ELSE LET lo == CHOOSE j \in keep : \A m \in keep : j <= m
                 hi == CHOOSE j \in keep : \A m \in keep : j >= m
             IN  SubSeq(s, lo, hi)

\* str.replace(old, new) for one-character old and new
Replace(s, old, new) == [j \in 1..Len(s) |-> IF s[j] = old THEN new ELSE s[j]]

\* str.split(sep): every separator splits, empty fields are kept
RECURSIVE Split(_, _)
Split(s, sep) ==
    LET at == {j \in 1..Len(s) : s[j] = sep}
    IN  IF at = {} THEN <<s>>
        ELSE LET j == CHOOSE m \in at : \A q \in at : m <= q
             IN  <<SubSeq(s, 1, j - 1)>> \o Split(SubSeq(s, j + 1, Len(s)), sep)

\* xs[:m]
Prefix(xs, m) == SubSeq(xs, 1, IF Len(xs) < m THEN Len(xs) ELSE m)

TickerCap == 8

\* [t.strip().upper() for t in fields if t.strip()]
RECURSIVE StripUpperNonBlank(_)
StripUpperNonBlank(fields) ==
    IF fields = <<>> THEN <<>>
    ELSE (IF Strip(Head(fields)) # <<>> THEN <<Upper(Strip(Head(fields)))>> ELSE <<>>)
         \o StripUpperNonBlank(Tail(fields))

\* the list comprehension of clean_tickers, before the cap
CleanedList(s) == StripUpperNonBlank(Split(Replace(s, " ", ","), ","))

\* clean_tickers without the [:8] cap
clean_tickers_uncapped(s) == CleanedList(s)

clean_tickers(s) == Prefix(CleanedList(s), TickerCap)

\* lexicographic order of str
StrLess(a, b) ==
    \E j \in 1..Len(b) :
        /\ j <= Len(a) + 1
        /\ \A m \in 1..(j - 1) : a[m] = b[m]
        /\ (j = Len(a) + 1 \/ Ord(a[j]) < Ord(b[j]))

(***************************************************************************)
(* DataFrames.                                                             *)
(***************************************************************************)
\* pd.DataFrame(): no rows, no columns
EmptyFrame == [n |-> 0, col |-> [c \in {} |-> <<>>]]

\* DataFrame.empty
IsEmpty(T) == T.n = 0 \/ DOMAIN T.col = {}

\* out[name] = vals
SetColumn(T, name, vals) ==
    [n |-> T.n,
     col |-> [c \in DOMAIN T.col \cup {name} |-> IF c = name THEN vals ELSE T.col[c]]]

\* the ascending sequence of a finite set of integers
Ascending(S) ==
    [r \in 1..Cardinality(S) |-> CHOOSE i \in S : Cardinality({j \in S : j < i}) = r - 1]

\* the rows T[at[1]], T[at[2]], ... of T
TakeRows(T, at) ==
    [n |-> Len(at),
     col |-> [c \in DOMAIN T.col |-> [r \in 1..Len(at) |-> T.col[c][at[r]]]]]

\* df[df["Ticker"] == t]
FilterTicker(T, t) ==
    TakeRows(T, Ascending({i \in 1..T.n : T.col["Ticker"][i] = t}))

\* the frame yf.Ticker(t).history() gives for closes h, after reset_index and
\* df["Ticker"] = ticker; dates are the trading days 1, 2, ...
HistoryFrame(ticker, h) ==
    [n |-> Len(h),
     col |-> [c \in {"Date", "Close", "Ticker"} |->
                CASE c = "Date"   -> [i \in 1..Len(h) |-> i]
                  [] c = "Close"  -> h
                  [] c = "Ticker" -> [i \in 1..Len(h) |-> ticker]]]

\* fetch_history on a cache miss: y is what yfinance does, [raises, closes]
fetch_history(ticker, y) ==
    IF y.raises \/ y.closes = <<>> THEN EmptyFrame
    ELSE HistoryFrame(ticker, y.closes)

\* pd.concat of frames with the same columns
RECURSIVE ConcatColumn(_, _)
ConcatColumn(frames, c) ==
    IF frames = <<>> THEN <<>>
    ELSE Head(frames).col[c] \o ConcatColumn(Tail(frames), c)

RECURSIVE TotalRows(_)
TotalRows(frames) ==
    IF frames = <<>> THEN 0 ELSE Head(frames).n + TotalRows(Tail(frames))

Concat(frames) ==
    [n |-> TotalRows(frames),
     col |-> [c \in DOMAIN frames[1].col |-> ConcatColumn(frames, c)]]

\* row i sorts before row j under ["Ticker", "Date"]
RowLess(T, i, j) ==
    \/ StrLess(T.col["Ticker"][i], T.col["Ticker"][j])
    \/ /\ T.col["Ticker"][i] = T.col["Ticker"][j]
       /\ T.col["Date"][i] < T.col["Date"][j]

\* sort_values(["Ticker", "Date"]) (a stable sort)
SortValues(T) ==
    LET rank == [i \in 1..T.n |->
                   Cardinality({j \in 1..T.n :
                                  RowLess(T, j, i) \/ (~RowLess(T, i, j) /\ j < i)})]
        perm == [r \in 1..T.n |-> CHOOSE i \in 1..T.n : rank[i] = r - 1]
    IN  TakeRows(T, perm)

(***************************************************************************)
(* Rolling means and grouped transforms.                                   *)
(***************************************************************************)
RECURSIVE SumRange(_, _, _)
SumRange(s, lo, hi) ==
    IF lo > hi THEN Num(0) ELSE FAdd(s[lo], SumRange(s, lo + 1, hi))

\* rolling(w, min_periods=1).mean(): a partly filled window gives a mean
RollingMeanPartial(s, w) ==
    [i \in 1..Len(s) |->
        LET lo == IF i - w + 1 < 1 THEN 1 ELSE i - w + 1
        IN  IF w = 0 \/ \E j \in lo..i : ~IsNum(s[j]) THEN NaN
            ELSE FDiv(SumRange(s, lo, i), Num(i - lo + 1))]

\* s.rolling(w).mean() for w >= 0: min_periods is w, so a window that is not
\* full or holds a missing value gives NaN; a window of 0 is always empty
RollingMean(s, w) ==
    [i \in 1..Len(s) |->
        IF w = 0 \/ i < w THEN NaN
        ELSE IF \E j \in (i - w + 1)..i : ~IsNum(s[j]) THEN NaN
        ELSE FDiv(SumRange(s, i - w + 1, i), Num(w))]

\* rolling(w) raises ValueError("window must be an integer 0 or greater")
RollingRaises(w) == w < 0

\* no grouping: every group is the whole frame
GroupRowsAll(T, g) == Ascending(1..T.n)

\* the rows of the group of ticker g, in frame order
GroupRows(T, g) == Ascending({i \in 1..T.n : T.col["Ticker"][i] = g})

\* out.groupby("Ticker")["Close"]: the closes of each group, in frame order
GroupCloses(T) ==
    [g \in {T.col["Ticker"][i] : i \in 1..T.n} |->
        [r \in 1..Len(GroupRows(T, g)) |-> T.col["Close"][GroupRows(T, g)[r]]]]

\* .transform(...): the result res[g] of each group goes back to the rows of
\* the group
GroupTransform(T, res) ==
    LET rows == [g \in DOMAIN res |-> GroupRows(T, g)]
    IN  [i \in 1..T.n |->
            LET g == T.col["Ticker"][i]
            IN  res[g][CHOOSE r \in 1..Len(rows[g]) : rows[g][r] = i]]

SmaName(w) == "SMA_" \o ToString(w)
MaName(w) == "MA_" \o ToString(w)

\* the loop of add_sma over the windows, on the copy `out`
RECURSIVE SmaLoop(_, _)
SmaLoop(out, ws) ==
    IF ws = <<>> THEN [raised |-> "", frame |-> out]
    ELSE IF ~({"Ticker", "Close"} \subseteq DOMAIN out.col)
         THEN [raised |-> "KeyError", frame |-> out]
    ELSE IF RollingRaises(Head(ws)) /\ out.n > 0
         THEN [raised |-> "ValueError", frame |-> out]
    ELSE LET closes == GroupCloses(out)
         IN  SmaLoop(SetColumn(out, SmaName(Head(ws)),
                               GroupTransform(out, [g \in DOMAIN closes |->
                                                     RollingMean(closes[g], Head(ws))])),
                     Tail(ws))

add_sma(T, ws) == SmaLoop(T, ws)

\* norm without the `* 100`
NormNoScale(s) ==
    LET first == IF s # <<>> THEN s[1] ELSE None
    IN  IF Truthy(first) THEN [i \in 1..Len(s) |-> FDiv(s[i], first)]
        ELSE [i \in 1..Len(s) |-> NaN]

\* norm without the `if first` guard
NormUnguarded(s) == [i \in 1..Len(s) |-> FMul(FDiv(s[i], s[1]), 100)]

\* norm(s) of normalize
Norm(s) ==
    LET first == IF s # <<>> THEN s[1] ELSE None
    IN  IF Truthy(first) THEN [i \in 1..Len(s) |-> FMul(FDiv(s[i], first), 100)]
        ELSE [i \in 1..Len(s) |-> NaN]

normalize(T) ==
    IF ~({"Ticker", "Close"} \subseteq DOMAIN T.col)
    THEN [raised |-> "KeyError", frame |-> T]
    ELSE LET closes == GroupCloses(T)
         IN  [raised |-> "",
              frame |-> SetColumn(T, "CloseNorm",
                                  GroupTransform(T, [g \in DOMAIN closes |-> Norm(closes[g])]))]

\* add_indicators of src/finance.py: rolling means of the whole Close column
add_indicators(T, ma_short, ma_long) ==
    IF "Close" \notin DOMAIN T.col THEN [raised |-> "", frame |-> T]
    ELSE IF RollingRaises(ma_short) THEN [raised |-> "ValueError", frame |-> T]
    ELSE LET one == SetColumn(T, MaName(ma_short), RollingMean(T.col["Close"], ma_short))
         IN  IF RollingRaises(ma_long) THEN [raised |-> "ValueError", frame |-> one]
             ELSE [raised |-> "",
                   frame |-> SetColumn(one, MaName(ma_long),
                                       RollingMean(one.col["Close"], ma_long))]

\* the tickers of a frame
TickersOf(T) == {T.col["Ticker"][i] : i \in 1..T.n}

\* df.groupby("Ticker").apply(lambda g: (last / first - 1) * 100)
ReturnOf(g) ==
    FMul(FSub(FDiv(g.col["Close"][g.n], g.col["Close"][1]), 1), 100)

ReturnSummary(T) == [t \in TickersOf(T) |-> ReturnOf(FilterTicker(T, t))]

(***************************************************************************)
(* Inputs.                                                                 *)
(***************************************************************************)
RawChars == {"a", "B", ",", " ", "\t"}

\* a pasted list of k entries "a", separated by "," and " " in turn
RECURSIVE PasteList(_)
PasteList(k) ==
    IF k = 0 THEN <<>>
    ELSE PasteList(k - 1) \o <<"a", IF k % 2 = 1 THEN "," ELSE " ">>

RawInputs ==
    UNION {[1..m -> RawChars] : m \in 0..MaxRawLen}
    \cup {PasteList(k) : k \in 0..MaxPaste}

\* closes of the frames passed to direct calls
CloseVals == {NaN, Num(0), Num(1), Num(2)}

\* closes of the histories yfinance returns
FetchedCloses == {Num(0), Num(2)}

\* the closes of a history yfinance returns
Histories == UNION {[1..m -> FetchedCloses] : m \in 0..MaxLen}

\* what yf.Ticker(t).history() does: raise, or return closes (maybe none)
YfOutcomes ==
    {[raises |-> TRUE, closes |-> <<>>]}
    \cup {[raises |-> FALSE, closes |-> h] : h \in Histories}

\* values of the sidebar's number inputs
sma_short == 20
sma_mid == 50
sma_long == 200

NoReturns == [t \in {} |-> NaN]
NoCall == [f |-> "none", ws |-> <<>>]

LibIdle ==
    /\ heap = <<EmptyFrame, EmptyFrame>>
    /\ arg = 1
    /\ ret = 0
    /\ raised = ""
    /\ call = NoCall

(***************************************************************************)
(* One run of the app.py script.                                           *)
(***************************************************************************)
Init ==
    /\ pc = "idle"
    /\ tickers_raw \in RawInputs
    /\ tickers = <<>>
    /\ idx = 0
    /\ dfs = <<>>
    /\ missing = <<>>
    /\ cache = [t \in {} |-> EmptyFrame]
    /\ fetches = 0
    /\ notice = ""
    /\ df = EmptyFrame
    /\ df_norm = EmptyFrame
    /\ returns = NoReturns
    /\ LibIdle

\* else: st.info(...): the button was not clicked
Hint ==
    /\ pc = "idle"
    /\ pc' = "hint"
    /\ UNCHANGED <<tickers_raw, tickers, idx, dfs, missing, cache, fetches,
                   notice, df, df_norm, returns>>
    /\ UNCHANGED libVars

\* if fetch_btn: tickers = clean_tickers(tickers_raw); if not tickers: stop
Click ==
    /\ pc = "idle"
    /\ tickers' = clean_tickers(tickers_raw)
    /\ IF tickers' = <<>>
       THEN /\ notice' = "warning: enter at least one ticker"
            /\ pc' = "stopped"
            /\ idx' = idx
       ELSE /\ notice' = notice
            /\ pc' = "loop"
            /\ idx' = 1
    /\ UNCHANGED <<tickers_raw, dfs, missing, cache, fetches, df, df_norm, returns>>
    /\ UNCHANGED libVars

\* the loop body with `break` after a missing ticker
LoopBodyBreak(t, df_one) ==
    /\ IF IsEmpty(df_one)
       THEN missing' = Append(missing, t) /\ dfs' = dfs /\ idx' = Len(tickers) + 1
       ELSE dfs' = Append(dfs, df_one) /\ missing' = missing /\ idx' = idx + 1
    /\ fetches' = fetches + 1

\* the body of `for t in tickers` once df_one is fetched
LoopBody(t, df_one) ==
    /\ IF IsEmpty(df_one)
       THEN missing' = Append(missing, t) /\ dfs' = dfs
       ELSE dfs' = Append(dfs, df_one) /\ missing' = missing
    /\ idx' = idx + 1
    /\ fetches' = fetches + 1

\* fetch_history(t, ...) served by st.cache_data
FetchCached ==
    /\ pc = "loop"
    /\ idx <= Len(tickers)
    /\ tickers[idx] \in DOMAIN cache
    /\ LoopBody(tickers[idx], cache[tickers[idx]])
    /\ UNCHANGED <<pc, tickers_raw, tickers, cache, notice, df, df_norm, returns>>
    /\ UNCHANGED libVars

\* fetch_history(t, ...) run, its result cached
FetchNew ==
    /\ pc = "loop"
    /\ idx <= Len(tickers)
    /\ tickers[idx] \notin DOMAIN cache
    /\ \E y \in YfOutcomes :
          LET df_one == fetch_history(tickers[idx], y)
          IN  /\ cache' = [t \in DOMAIN cache \cup {tickers[idx]} |->
                             IF t = tickers[idx] THEN df_one ELSE cache[t]]
              /\ LoopBody(tickers[idx], df_one)
    /\ UNCHANGED <<pc, tickers_raw, tickers, notice, df, df_norm, returns>>
    /\ UNCHANGED libVars

\* after the loop (the st.warning that lists `missing` does not stop the run):
\* stop if nothing was fetched, else concat, sort, add_sma
Combine ==
    /\ pc = "loop"
    /\ idx > Len(tickers)
    /\ IF dfs = <<>>
       THEN /\ notice' = "error: no valid tickers fetched"
            /\ pc' = "stopped"
            /\ df' = df
       ELSE /\ notice' = notice
            /\ pc' = "tabs"
            /\ df' = add_sma(SortValues(Concat(dfs)),
                             <<sma_short, sma_mid, sma_long>>).frame
    /\ UNCHANGED <<tickers_raw, tickers, idx, dfs, missing, cache, fetches,
                   df_norm, returns>>
    /\ UNCHANGED libVars

\* the comparison tab: normalize(df) and the return summary
Compare ==
    /\ pc = "tabs"
    /\ df_norm' = normalize(df).frame
    /\ returns' = ReturnSummary(df)
    /\ pc' = "done"
    /\ UNCHANGED <<tickers_raw, tickers, idx, dfs, missing, cache, fetches,
                   notice, df>>
    /\ UNCHANGED libVars

Next == Hint \/ Click \/ FetchCached \/ FetchNew \/ Combine \/ Compare

Spec == Init /\ [][Next]_vars

(***************************************************************************)
(* Direct calls of add_sma, normalize and add_indicators on a frame.       *)
(***************************************************************************)
Symbols == {<<"A">>, <<"B">>}

\* the frame whose rows carry the given tickers and closes; the dates of a
\* ticker's rows are its trading days 1, 2, ... in row order
FrameOf(ts, cs) ==
    [n |-> Len(ts),
     col |-> [c \in {"Date", "Close", "Ticker"} |->
                CASE c = "Date"   -> [i \in 1..Len(ts) |->
                                        Cardinality({j \in 1..i : ts[j] = ts[i]})]
                  [] c = "Close"  -> cs
                  [] c = "Ticker" -> ts]]

InputFrames ==
    {EmptyFrame}
    \cup UNION {{FrameOf(ts, cs) : ts \in [1..m -> Symbols], cs \in [1..m -> CloseVals]} :
                  m \in 0..MaxRows}

Windows == (-1)..MaxWindow

\* default arguments of add_indicators
DefaultMaShort == 7
DefaultMaLong == 30

\* out = df: no copy, the same object
CopyOfAlias(r) == r

\* the reference of the object df.copy() creates
CopyOf(r) == IF r = 1 THEN 2 ELSE 1

LibInit ==
    /\ pc = "idle"
    /\ tickers_raw = <<>>
    /\ tickers = <<>>
    /\ idx = 0
    /\ dfs = <<>>
    /\ missing = <<>>
    /\ cache = [t \in {} |-> EmptyFrame]
    /\ fetches = 0
    /\ notice = ""
    /\ df = EmptyFrame
    /\ df_norm = EmptyFrame
    /\ returns = NoReturns
    /\ heap \in {<<T, EmptyFrame>> : T \in InputFrames}
    /\ arg = 1
    /\ ret = 0
    /\ raised = ""
    /\ call = NoCall

\* one call: it works on out = df.copy() and returns out unless it raises
Returns(f, ws, r) ==
    /\ call = NoCall
    /\ heap' = [heap EXCEPT ![CopyOf(arg)] = r.frame]
    /\ ret' = IF r.raised = "" THEN CopyOf(arg) ELSE 0
    /\ raised' = r.raised
    /\ call' = [f |-> f, ws |-> ws]
    /\ arg' = arg
    /\ UNCHANGED appVars

CallAddSma ==
    \E w \in Windows :
        \/ Returns("add_sma", <<w>>, add_sma(heap[arg], <<w>>))
        \/ Returns("add_sma", <<w, w + 1>>, add_sma(heap[arg], <<w, w + 1>>))

CallNormalize == Returns("normalize", <<>>, normalize(heap[arg]))

CallAddIndicators ==
    \E w \in Windows :
        \/ Returns("add_indicators", <<w, DefaultMaLong>>,
                   add_indicators(heap[arg], w, DefaultMaLong))
        \/ Returns("add_indicators", <<DefaultMaShort, w>>,
                   add_indicators(heap[arg], DefaultMaShort, w))

LibNext == CallAddSma \/ CallNormalize \/ CallAddIndicators

LibSpec == LibInit /\ [][LibNext]_vars

(***************************************************************************)
(* Properties of a run of the script.                                      *)
(***************************************************************************)
Range(xs) == {xs[j] : j \in 1..Len(xs)}

Count(xs, x) == Cardinality({j \in 1..Len(xs) : xs[j] = x})

\* the loop is over and the run was not stopped for an empty ticker list
LoopDone == pc \in {"tabs", "done"} \/ (pc = "stopped" /\ tickers # <<>>)

\* C1: once the fetch loop is over, every ticker was fetched; each ticker whose
\* fetch was empty is in `missing`; each row of each non-empty fetch is in the
\* combined frame (once per occurrence of the ticker); and the run was stopped
\* exactly when no ticker gave data.
C1_FetchLoopIsolatesFailures ==
    LoopDone =>
        /\ fetches = Len(tickers)
        /\ DOMAIN cache = Range(tickers)
        /\ \A t \in Range(tickers) :
              IF cache[t].n = 0
              THEN t \in Range(missing)
              ELSE /\ t \notin Range(missing)
                   /\ pc # "stopped"
                   /\ \A i \in 1..cache[t].n :
                         Cardinality({r \in 1..df.n :
                             /\ df.col["Ticker"][r] = t
                             /\ df.col["Date"][r] = cache[t].col["Date"][i]
                             /\ df.col["Close"][r] = cache[t].col["Close"][i]})
                         = Count(tickers, t)
        /\ (pc = "stopped") <=> (\A t \in Range(tickers) : cache[t].n = 0)

C1_Witness ==
    /\ pc = "done"
    /\ missing # <<>>
    /\ dfs # <<>>
    /\ Len(tickers) >= 2

\* C6 (as claimed): the return summary gives (last / first - 1) * 100 for a
\* ticker with at least 2 rows and a defined, non-zero first close, and a
\* missing value for every other ticker.
C6_ReturnsUndefinedWhenDegenerate ==
    pc = "done" =>
        \A t \in TickersOf(df) :
            LET g     == FilterTicker(df, t)
                first == g.col["Close"][1]
                last  == g.col["Close"][g.n]
            IN  IF g.n >= 2 /\ IsNum(first) /\ first.n # 0
                THEN returns[t] = FMul(FSub(FDiv(last, first), 1), 100)
                ELSE returns[t] = NaN

\* C8 (as claimed): in the combined frame the rows of each ticker have strictly
\* increasing dates.
C8_DatesStrictlyIncreasing ==
    pc \in {"tabs", "done"} =>
        \A i, j \in 1..df.n :
            (i < j /\ df.col["Ticker"][i] = df.col["Ticker"][j])
                => df.col["Date"][i] < df.col["Date"][j]

Separators == {",", " "}

\* the fields of s: the maximal runs of characters that are no separator
FieldStarts(s) ==
    {j \in 1..Len(s) : s[j] \notin Separators /\ (j = 1 \/ s[j - 1] \in Separators)}

FieldAt(s, j) ==
    LET stop == {m \in j..Len(s) : m = Len(s) \/ s[m + 1] \in Separators}
    IN  SubSeq(s, j, CHOOSE m \in stop : \A q \in stop : m <= q)

\* the starts of the fields that hold more than whitespace, in input order
TickerStarts(s) ==
    Ascending({j \in FieldStarts(s) : \E m \in 1..Len(FieldAt(s, j)) :
                                          ~IsSpace(FieldAt(s, j)[m])})

\* C10: the tickers of a run are at most 8, each non-empty, without whitespace
\* at either end and without lowercase letters; the k-th is the k-th field of
\* the input that is not blank (commas and spaces both separate fields),
\* stripped and uppercased; and a run calls fetch_history at most 8 times.
C10_CleanTickers ==
    /\ fetches <= TickerCap
    /\ fetches <= Len(tickers)
    /\ pc \notin {"idle", "hint"} =>
          LET starts == TickerStarts(tickers_raw)
          IN  /\ Len(tickers) <= TickerCap
              /\ Len(tickers) = IF Len(starts) < TickerCap THEN Len(starts) ELSE TickerCap
              /\ \A k \in 1..Len(tickers) :
                    LET t == tickers[k]
                        f == FieldAt(tickers_raw, starts[k])
                    IN  /\ t # <<>>
                        /\ ~IsSpace(t[1]) /\ ~IsSpace(t[Len(t)])
                        /\ \A m \in 1..Len(t) : t[m] \notin {"a", "b"}
                        /\ \E lo \in 1..Len(f) :
                              /\ Len(t) <= Len(f) - lo + 1
                              /\ \A m \in 1..Len(t) :
                                    t[m] = (CASE f[lo + m - 1] = "a" -> "A"
                                              [] f[lo + m - 1] = "b" -> "B"
                                              [] OTHER -> f[lo + m - 1])
                              /\ \A m \in 1..Len(f) :
                                    (m < lo \/ m >= lo + Len(t)) => IsSpace(f[m])

C10_Witness ==
    /\ pc = "done"
    /\ Len(TickerStarts(tickers_raw)) > TickerCap
    /\ fetches = TickerCap

(***************************************************************************)
(* Properties of the direct calls.                                         *)
(***************************************************************************)
RECURSIVE IntSum(_, _, _)
IntSum(s, lo, hi) == IF lo > hi THEN 0 ELSE s[lo].n + IntSum(s, lo + 1, hi)

\* a call that computed rolling means returned a frame
Rolled == call.f \in {"add_sma", "add_indicators"} /\ ret # 0
          /\ "Close" \in DOMAIN heap[ret].col

\* the series the rolling means ran over, each with the columns produced:
\* every ticker's rows for add_sma, the whole frame for add_indicators
RolledSeries ==
    IF call.f = "add_sma"
    THEN {FilterTicker(heap[ret], t) : t \in TickersOf(heap[ret])}
    ELSE {heap[ret]}

RolledName(w) == IF call.f = "add_sma" THEN SmaName(w) ELSE MaName(w)

Defined(m) == {i \in 1..Len(m) : IsNum(m[i])}

Max0(x) == IF x < 0 THEN 0 ELSE x

\* C2 (as claimed): for every series and every positive window w the moving
\* average is defined exactly at the indices i >= w - 1 (0-based), so it has
\* exactly max(0, len - w + 1) defined entries.
C2_DefinedExactlyFromWindow ==
    Rolled =>
        \A g \in RolledSeries : \A j \in 1..Len(call.ws) :
            LET w == call.ws[j]
                m == g.col[RolledName(w)]
            IN  w > 0 =>
                  /\ \A i \in 1..g.n : IsNum(m[i]) <=> i >= w
                  /\ Cardinality(Defined(m)) = Max0(g.n - w + 1)

\* C2 (amended): for every series and every positive window w the moving
\* average is defined at index i exactly when i >= w - 1 (0-based) and none of
\* the w closes ending at i is missing; it is then their arithmetic mean, and
\* it is NaN otherwise.  So a series without missing closes has exactly
\* max(0, len - w + 1) defined entries, all trailing, and w > len gives a fully
\* undefined column and no error.
C2_DefinedFromWindowOverDefinedCloses ==
    Rolled =>
        \A g \in RolledSeries : \A j \in 1..Len(call.ws) :
            LET w == call.ws[j]
                m == g.col[RolledName(w)]
                s == g.col["Close"]
            IN  w > 0 =>
                  /\ \A i \in 1..g.n :
                        IF i >= w /\ \A q \in (i - w + 1)..i : IsNum(s[q])
                        THEN /\ IsNum(m[i])
                             /\ m[i].n * w = m[i].d * IntSum(s, i - w + 1, i)
                        ELSE m[i] = NaN
                  /\ (\A i \in 1..g.n : IsNum(s[i]))
                        => Defined(m) = {i \in 1..g.n : i >= w}
                           /\ Cardinality(Defined(m)) = Max0(g.n - w + 1)

C2_Witness ==
    /\ call = [f |-> "add_sma", ws |-> <<2, 3>>]
    /\ ret # 0
    /\ \E g \in RolledSeries :
          /\ g.n = 2
          /\ g.col["Close"] = <<Num(1), Num(2)>>
          /\ g.col[SmaName(2)] = <<NaN, Frac(3, 2)>>
          /\ g.col[SmaName(3)] = <<NaN, NaN>>

\* C3: after add_sma or normalize on a frame of several tickers, the rows of
\* each ticker in the returned frame are what the same call returns for the
\* frame of that ticker's rows alone.
C3_GroupsAreIsolated ==
    (call.f \in {"add_sma", "normalize"} /\ ret # 0) =>
        \A t \in TickersOf(heap[arg]) :
            FilterTicker(heap[ret], t) =
                IF call.f = "add_sma"
                THEN add_sma(FilterTicker(heap[arg], t), call.ws).frame
                ELSE normalize(FilterTicker(heap[arg], t)).frame

C3_Witness ==
    /\ call = [f |-> "add_sma", ws |-> <<2>>]
    /\ ret # 0
    /\ heap[arg].col["Ticker"] = <<<<"A">>, <<"B">>, <<"A">>>>
    /\ heap[arg].col["Close"] = <<Num(2), Num(1), Num(2)>>
    /\ heap[ret].col[SmaName(2)] = <<NaN, NaN, Num(2)>>

\* C4: after normalize, for every ticker whose first close is a non-zero
\* number, CloseNorm[i] = Close[i] / Close[0] * 100 at every row of the ticker
\* (missing where Close[i] is missing), and CloseNorm[0] = 100.
C4_NormalizedToHundred ==
    (call.f = "normalize" /\ ret # 0) =>
        \A t \in TickersOf(heap[ret]) :
            LET g     == FilterTicker(heap[ret], t)
                first == g.col["Close"][1]
            IN  (IsNum(first) /\ first.n # 0) =>
                  /\ g.col["CloseNorm"][1] = Num(100)
                  /\ \A i \in 1..g.n :
                        LET c == g.col["Close"][i]
                            v == g.col["CloseNorm"][i]
                        IN  IF IsNum(c)
                            THEN IsNum(v) /\ v.n * first.n * c.d = 100 * c.n * v.d * first.d
                            ELSE v = NaN

C4_Witness ==
    /\ call.f = "normalize"
    /\ ret # 0
    /\ heap[ret].col["Close"] = <<Num(2), Num(1), NaN>>
    /\ heap[ret].col["Ticker"] = <<<<"A">>, <<"A">>, <<"A">>>>
    /\ heap[ret].col["CloseNorm"] = <<Num(100), Num(50), NaN>>

\* a frame of a batch: it has the Ticker and Close columns
IsBatch(T) == {"Ticker", "Close"} \subseteq DOMAIN T.col

C7_NonPositiveWindowRejected ==
    (/\ call.f \in {"add_sma", "add_indicators"}
     /\ heap[arg].n > 0
     /\ \E j \in 1..Len(call.ws) : call.ws[j] <= 0)
        => (raised # "" /\ ret = 0)

BaseColumns == {"Date", "Close", "Ticker"}

\* C9: no call changes the frame passed in; the frame returned is another
\* object, which agrees with the frame passed in on its columns, and the
\* SMA_ / MA_ / CloseNorm columns are in the returned frame only.
C9_InputUnchanged ==
    /\ [][arg' = arg /\ heap'[arg] = heap[arg]]_vars
    /\ [](ret # 0 =>
            /\ ret # arg
            /\ DOMAIN heap[arg].col \subseteq BaseColumns
            /\ heap[ret].n = heap[arg].n
            /\ DOMAIN heap[arg].col \subseteq DOMAIN heap[ret].col
            /\ \A c \in DOMAIN heap[arg].col : heap[ret].col[c] = heap[arg].col[c])

C9_Witness ==
    /\ ret # 0
    /\ heap[arg].n > 0
    /\ "CloseNorm" \in DOMAIN heap[ret].col
    /\ "CloseNorm" \notin DOMAIN heap[arg].col

====
